---- MODULE Spec2Model ----
(***************************************************************************)
(* Model of src/src/index.js: the Slot marker component and findSlots,     *)
(* the scanner that partitions a parent's children into named slots and a  *)
(* default group.  JavaScript values are modelled as tagged records, the    *)
(* arrays live in a heap of references so that aliasing between the        *)
(* caller's array and the working array is observable.                     *)
(***************************************************************************)
EXTENDS Integers, Sequences, FiniteSets, TLC

\* Longest children array the caller passes.
MaxLen == 3

----------------------------------------------------------------------------
(* JavaScript values used as the `name` prop *)

UndefinedName == [t |-> "undefined", s |-> "", n |-> 0]
Str(s) == [t |-> "string", s |-> s, n |-> 0]
Num(n) == [t |-> "number", s |-> "", n |-> n]
Bool(b) == [t |-> "boolean", s |-> "", n |-> IF b THEN 1 ELSE 0]

Names ==
  { UndefinedName, Str(""), Str("foo"), Str("5"), Str("default"),
    Str("__proto__"), Num(5), Num(0), Bool(TRUE) }

\* JavaScript ToBoolean, as applied by `!child.props.name`.
ToBoolean(v) ==
  CASE v.t = "undefined" -> FALSE
    [] v.t = "string"    -> v.s # ""
    [] v.t = "number"    -> v.n # 0
    [] v.t = "boolean"   -> v.n = 1

Digits == <<"0", "1", "2", "3", "4", "5", "6", "7", "8", "9">>

RECURSIVE NumberToString(_)
NumberToString(n) ==
  IF n < 10 THEN Digits[n + 1]
  ELSE NumberToString(n \div 10) \o Digits[(n % 10) + 1]

\* JavaScript ToPropertyKey, as applied by `slots[child.props.name]`.
ToPropertyKey(v) ==
  CASE v.t = "undefined" -> "undefined"
    [] v.t = "string"    -> v.s
    [] v.t = "number"    -> NumberToString(v.n)
    [] v.t = "boolean"   -> IF v.n = 1 THEN "true" ELSE "false"

----------------------------------------------------------------------------
(* Nested children of a marker: an element (an object) or a text string *)

Contents == { [ck |-> "object", id |-> "C1"], [ck |-> "string", id |-> "C2"] }

NoContent == [ck |-> "undefined", id |-> ""]

(* Child nodes *)

NullChild == [kind |-> "null", type |-> "", name |-> UndefinedName,
              children |-> NoContent, id |-> ""]
UndefinedChild == [kind |-> "undefined", type |-> "", name |-> UndefinedName,
                   children |-> NoContent, id |-> ""]
NumberChild == [kind |-> "number", type |-> "", name |-> UndefinedName,
                children |-> NoContent, id |-> "7"]
Span(id) == [kind |-> "object", type |-> "span", name |-> UndefinedName,
             children |-> NoContent, id |-> id]
\* The element <Slot name={name}>{children}</Slot>.
Slot(name, children) == [kind |-> "object", type |-> "Slot", name |-> name,
                         children |-> children, id |-> ""]

Markers == { Slot(nm, c) : nm \in Names, c \in Contents }
NonMarkers == { NullChild, UndefinedChild, NumberChild, Span("A"), Span("B") }
ChildValues == Markers \cup NonMarkers

\* Reading a property of null or undefined throws a TypeError.
HasProperties(child) == child.kind \notin {"null", "undefined"}

\* `child.type === Slot`
IsSlot(child) == child.kind = "object" /\ child.type = "Slot"

----------------------------------------------------------------------------
(* Property values and the slots object *)

NoValue == [vk |-> "none", c |-> NoContent, a |-> <<>>]
ContentValue(c) == [vk |-> "content", c |-> c, a |-> <<>>]
ArrayValue(a) == [vk |-> "array", c |-> NoContent, a |-> a]
ObjectPrototype == [vk |-> "Object.prototype", c |-> NoContent, a |-> <<>>]

\* The object literal {} that seeds the reduce.
EmptyObject == [own |-> [k \in {} |-> NoValue], proto |-> ObjectPrototype]

\* obj[key] = value on a plain object: "__proto__" is the inherited accessor,
\* every other key becomes (or overwrites) an own property.
PutProperty(obj, key, value) ==
  IF key = "__proto__"
  THEN IF value.vk = "array" \/ (value.vk = "content" /\ value.c.ck = "object")
       THEN [obj EXCEPT !.proto = value]
       ELSE obj
  ELSE [obj EXCEPT !.own =
          [k \in (DOMAIN obj.own) \cup {key} |->
             IF k = key THEN value ELSE obj.own[k]]]

----------------------------------------------------------------------------
(* findSlots *)

SingleArg(v) == [isArray |-> FALSE, ref |-> 0, val |-> v]
ArrayArg(r) == [isArray |-> TRUE, ref |-> r, val |-> UndefinedChild]

NormalizeNoCopy(a, h) ==
  IF ~a.isArray
  THEN [heap |-> Append(h, <<a.val>>), ref |-> Len(h) + 1]
  ELSE [heap |-> h, ref |-> a.ref]

NormalizeNoWrap(a, h) ==
  IF ~a.isArray
  THEN [heap |-> Append(h, <<>>), ref |-> Len(h) + 1]
  ELSE [heap |-> Append(h, h[a.ref]), ref |-> Len(h) + 1]

\* Lines 50-51: wrap a non-array in a fresh array, else slice() a copy.
Normalize(a, h) ==
  IF ~a.isArray
  THEN [heap |-> Append(h, <<a.val>>), ref |-> Len(h) + 1]
  ELSE [heap |-> Append(h, h[a.ref]), ref |-> Len(h) + 1]

CallbackFirstWins(fr, ref, i) ==
  LET child == fr.heap[ref][i] IN
  IF ~HasProperties(child) THEN [fr EXCEPT !.error = "TypeError"]
  ELSE IF IsSlot(child)
       THEN IF ~ToBoolean(child.name)
            THEN [fr EXCEPT !.error = "MissingSlotName"]
            ELSE [fr EXCEPT
                    !.slots = IF ToPropertyKey(child.name) \in DOMAIN fr.slots.own
                              THEN fr.slots
                              ELSE PutProperty(fr.slots, ToPropertyKey(child.name),
                                               ContentValue(child.children)),
                    !.heap[ref][i] = NullChild]
       ELSE fr

CallbackNoNull(fr, ref, i) ==
  LET child == fr.heap[ref][i] IN
  IF ~HasProperties(child) THEN [fr EXCEPT !.error = "TypeError"]
  ELSE IF IsSlot(child)
       THEN IF ~ToBoolean(child.name)
            THEN [fr EXCEPT !.error = "MissingSlotName"]
            ELSE [fr EXCEPT
                    !.slots = PutProperty(fr.slots, ToPropertyKey(child.name),
                                          ContentValue(child.children))]
       ELSE fr

CallbackStringOnly(fr, ref, i) ==
  LET child == fr.heap[ref][i] IN
  IF ~HasProperties(child) THEN [fr EXCEPT !.error = "TypeError"]
  ELSE IF IsSlot(child)
       THEN IF ~(child.name.t = "string" /\ ToBoolean(child.name))
            THEN [fr EXCEPT !.error = "MissingSlotName"]
            ELSE [fr EXCEPT
                    !.slots = PutProperty(fr.slots, ToPropertyKey(child.name),
                                          ContentValue(child.children)),
                    !.heap[ref][i] = NullChild]
       ELSE fr

\* Lines 53-59: the reduce callback applied to element i of the working array.
Callback(fr, ref, i) ==
  LET child == fr.heap[ref][i] IN
  IF ~HasProperties(child) THEN [fr EXCEPT !.error = "TypeError"]
  ELSE IF IsSlot(child)
       THEN IF ~ToBoolean(child.name)
            THEN [fr EXCEPT !.error = "MissingSlotName"]
            ELSE [fr EXCEPT
                    !.slots = PutProperty(fr.slots, ToPropertyKey(child.name),
                                          ContentValue(child.children)),
                    !.heap[ref][i] = NullChild]
       ELSE fr

\* Lines 53-60: children.reduce(callback, {}), stopping at the first throw.
RECURSIVE Reduce(_, _, _, _)
Reduce(fr, ref, i, len) ==
  IF fr.error # "none" \/ i > len THEN fr
  ELSE Reduce(Callback(fr, ref, i), ref, i + 1, len)

\* Line 61: children.filter((child) => child !== null)
Filter(a) == SelectSeq(a, LAMBDA child : child # NullChild)

SetDefaultKeep(obj, a) ==
  IF "default" \in DOMAIN obj.own THEN obj
  ELSE PutProperty(obj, "default", ArrayValue(Filter(a)))

\* Line 61: slots.default = children.filter(...)
SetDefault(obj, a) == PutProperty(obj, "default", ArrayValue(Filter(a)))

NoResult == [isArray |-> FALSE, isObject |-> FALSE, obj |-> EmptyObject,
             first |-> EmptyObject, second |-> NoValue]

\* Line 63: `return slots` hands back the slots object itself, the default
\* group being its `default` property.
ReturnValue(obj) == [isArray |-> FALSE, isObject |-> TRUE, obj |-> obj,
                    first |-> EmptyObject, second |-> NoValue]

\* Lines 49-64: the whole call, on argument a with the heap h.
FindSlots(a, h) ==
  LET n  == Normalize(a, h)
      fr == Reduce([heap |-> n.heap, slots |-> EmptyObject, error |-> "none"],
                   n.ref, 1, Len(n.heap[n.ref]))
  IN IF fr.error # "none"
     THEN [heap |-> fr.heap, error |-> fr.error, result |-> NoResult]
     ELSE [heap |-> fr.heap, error |-> "none",
           result |-> ReturnValue(SetDefault(fr.slots, fr.heap[n.ref]))]

----------------------------------------------------------------------------
(* State *)

VARIABLES arg, heap, pc, error, result, caller

vars == <<arg, heap, pc, error, result, caller>>

NoCaller == [error |-> "none", slots |-> EmptyObject, defaultSlot |-> NoValue]

RECURSIVE SeqsUpTo(_)
SeqsUpTo(n) ==
  IF n = 0 THEN { <<>> }
  ELSE LET shorter == SeqsUpTo(n - 1) IN
       shorter \cup { Append(s, v) : s \in { t \in shorter : Len(t) = n - 1 },
                                     v \in ChildValues }

\* A component is about to call findSlots(children): children is either a
\* single child value (zero children being undefined) or an array of them.
Init ==
  /\ \/ \E v \in ChildValues : arg = SingleArg(v) /\ heap = <<>>
     \/ \E s \in SeqsUpTo(MaxLen) : arg = ArrayArg(1) /\ heap = <<s>>
  /\ pc = "ready"
  /\ error = "none"
  /\ result = NoResult
  /\ caller = NoCaller

\* findSlots(children) runs to its return or to its throw.
CallFindSlots ==
  /\ pc = "ready"
  /\ LET r == FindSlots(arg, heap) IN
       /\ heap' = r.heap
       /\ error' = r.error
       /\ result' = r.result
       /\ pc' = IF r.error = "none" THEN "returned" ELSE "threw"
  /\ UNCHANGED <<arg, caller>>

\* The documented use: const [ slots, defaultSlot ] = findSlots(children).
\* Array destructuring of a value that is not iterable throws a TypeError.
Destructure ==
  /\ pc = "returned"
  /\ caller' = IF result.isArray
               THEN [error |-> "none",
                     slots |-> result.first, defaultSlot |-> result.second]
               ELSE [error |-> "TypeError",
                     slots |-> EmptyObject, defaultSlot |-> NoValue]
  /\ pc' = "destructured"
  /\ UNCHANGED <<arg, heap, error, result>>

Next == CallFindSlots \/ Destructure

Spec == Init /\ [][Next]_vars

----------------------------------------------------------------------------
(* Vocabulary of the properties *)

\* The children the caller passed, as a sequence.
Input == IF arg.isArray THEN heap[arg.ref] ELSE <<arg.val>>

Finished == pc # "ready"
Succeeded == pc \in {"returned", "destructured"}

MarkerIdx == { j \in 1..Len(Input) : IsSlot(Input[j]) }
BadMarkerIdx == { j \in MarkerIdx : ~ToBoolean(Input[j].name) }
NonMarkerSeq == SelectSeq(Input, LAMBDA c : ~IsSlot(c))

Own == result.obj.own
KeyOf(j) == ToPropertyKey(Input[j].name)
Max(S) == CHOOSE x \in S : \A y \in S : y <= x
LastWithKey(k) == Max({ j \in MarkerIdx : KeyOf(j) = k })
LastWithName(nm) == Max({ j \in MarkerIdx : Input[j].name = nm })

----------------------------------------------------------------------------
\* C1: findSlots raises no error other than the missing-slot-name error:
\* whenever no marker of the input has a missing or empty name (null,
\* undefined and primitive children and an absent children value included),
\* the call returns a slot map whose default group holds every non-marker
\* value untouched.
C1_OnlyMissingNameError ==
  (Finished /\ BadMarkerIdx = {}) =>
     /\ error = "none"
     /\ result.isObject
     /\ "default" \in DOMAIN Own
     /\ Own["default"] = ArrayValue(NonMarkerSeq)

\* C2: whenever the input holds a marker whose name is absent or empty, the
\* call throws the missing-slot-name error and returns nothing, whatever
\* comes before or after that marker.
C2_BadNameAlwaysMissingSlotName ==
  (Finished /\ BadMarkerIdx # {}) =>
     /\ error = "MissingSlotName"
     /\ result = NoResult

\* C3: for a children sequence without any marker the default entry equals
\* the input sequence unchanged and default is the only key of the output.
C3_NoMarkersIdentity ==
  (Finished /\ arg.isArray /\ MarkerIdx = {}) =>
     /\ error = "none"
     /\ DOMAIN Own = {"default"}
     /\ Own["default"] = ArrayValue(Input)

\* C4: when findSlots succeeds, default is exactly the subsequence of the
\* non-marker elements of the input in their original order: no marker in
\* it, nothing dropped or duplicated, its length the input length minus the
\* number of markers.
C4_DefaultIsNonMarkerSubsequence ==
  Succeeded =>
     /\ "default" \in DOMAIN Own
     /\ Own["default"].vk = "array"
     /\ Own["default"].a = NonMarkerSeq
     /\ \A j \in 1..Len(Own["default"].a) : ~IsSlot(Own["default"].a[j])
     /\ Len(Own["default"].a) = Len(Input) - Cardinality(MarkerIdx)

C4_Witness ==
  /\ pc = "returned"
  /\ Len(Input) = 3
  /\ IsSlot(Input[2])
  /\ Input[1] = Span("B") /\ Input[3] = Span("A")
  /\ Own["default"].a = <<Span("B"), Span("A")>>

\* C5 as stated: when findSlots succeeds, the named keys of the output are
\* exactly the names carried by the markers, and each name maps to the
\* nested children of the last marker carrying that name.
C5_KeysAreMarkerNames ==
  Succeeded =>
     /\ \A j \in MarkerIdx :
          /\ KeyOf(j) \in DOMAIN Own
          /\ Own[KeyOf(j)] =
               ContentValue(Input[LastWithName(Input[j].name)].children)
     /\ \A k \in (DOMAIN Own) \ {"default"} : \E j \in MarkerIdx : KeyOf(j) = k

\* C5 amended: when findSlots succeeds, the own keys of the output other
\* than default are exactly the property keys (string conversions) of the
\* marker names, "default" and "__proto__" excepted, and each such key maps
\* to the nested children of the last marker whose name converts to it.
C5_KeysAreMarkerKeys ==
  Succeeded =>
     /\ (DOMAIN Own) \ {"default"} =
          { KeyOf(j) : j \in MarkerIdx } \ {"default", "__proto__"}
     /\ \A k \in (DOMAIN Own) \ {"default"} :
          Own[k] = ContentValue(Input[LastWithKey(k)].children)

C5_Witness ==
  /\ pc = "returned"
  /\ Len(Input) = 3
  /\ \A j \in 1..2 : IsSlot(Input[j]) /\ Input[j].name = Str("foo")
  /\ Input[1].children # Input[2].children
  /\ Own["foo"] = ContentValue(Input[2].children)

\* C6: findSlots never mutates its input: across the call, returning or
\* throwing, the caller's array keeps its length and its elements (with all
\* their attributes) at the same positions.
C6_InputNotMutated ==
  [][arg.isArray => (arg' = arg /\ heap'[arg.ref] = heap[arg.ref])]_vars

C6_Witness ==
  /\ pc = "returned"
  /\ arg.isArray
  /\ MarkerIdx # {}
  /\ Len(heap) = 2
  /\ \E j \in MarkerIdx : heap[2][j] = NullChild /\ heap[arg.ref][j] # NullChild

\* C7: for a single non-sequence child X, findSlots(X) has the outcome of
\* findSlots([X]): the same slot map with the same default entry, or the
\* same error.
C7_SingleActsAsSingleton ==
  (Finished /\ ~arg.isArray) =>
     LET r == FindSlots(ArrayArg(1), << <<arg.val>> >>) IN
       /\ error = r.error
       /\ result = r.result

C7_Witness ==
  /\ pc = "returned"
  /\ ~arg.isArray
  /\ IsSlot(arg.val)
  /\ arg.val.name = Str("foo")
  /\ Own["foo"] = ContentValue(arg.val.children)
  /\ Own["default"] = ArrayValue(<<>>)

\* C8: findSlots returns an array of two elements, the slot map first and
\* the default slot second, so that destructuring it as
\* [slots, defaultSlot] succeeds and yields the named slots and the
\* default group.
C8_ReturnsPair ==
  /\ Succeeded => result.isArray
  /\ pc = "destructured" =>
       /\ caller.error = "none"
       /\ caller.defaultSlot = ArrayValue(NonMarkerSeq)
       /\ \A j \in MarkerIdx : KeyOf(j) \in DOMAIN caller.slots.own

C10_DefaultReserved ==
  Succeeded =>
     /\ Own["default"] = ArrayValue(NonMarkerSeq)
     /\ \A k \in DOMAIN Own :
          Own[k].vk = "content" =>
             /\ k # "default"
             /\ \E j \in MarkerIdx : KeyOf(j) = k /\ Input[j].children = Own[k].c
     /\ result.obj.proto.vk = "content" =>
          \E j \in MarkerIdx :
             KeyOf(j) = "__proto__" /\ Input[j].children = result.obj.proto.c

C10_Witness ==
  /\ pc = "returned"
  /\ Len(Input) = 3
  /\ Input[1] = Span("A")
  /\ IsSlot(Input[2]) /\ Input[2].name = Str("default")
  /\ IsSlot(Input[3]) /\ Input[3].name = Str("default")
  /\ Own["default"] = ArrayValue(<<Span("A")>>)
  /\ DOMAIN Own = {"default"}

====
